---- MODULE Spec2Model ----
(***************************************************************************)
(* Model of src/vs/workbench/contrib/notebook/browser/notebookEditor.ts:   *)
(* the notebook editor host (setInput / insertEmptyNotebookCell), the two  *)
(* cell renderers (markdown, code) with their listener bookkeeping, and    *)
(* the row delegate's height computation.                                  *)
(***************************************************************************)
EXTENDS Integers, Sequences, FiniteSets, TLC

(* ------------------------------ bounds -------------------------------- *)
MaxInitCells == 1      \* cells of a notebook document when it is opened
MaxInserts == 2        \* insertEmptyNotebookCell calls in one run
MaxOpens == 2          \* setInput calls in one run
MaxLines == 9          \* source lines of a cell handed to the row delegate
MaxLineHeight == 22    \* largest configured editor line height (pixels)
MaxListeners == 2      \* click listeners attached in one run
MaxClock == 1          \* largest value Date.now() takes in one run
MaxIndex == 1          \* largest row index handed to renderElement
MaxTemplates == 2      \* row templates each renderer creates

(* ------------------------- program constants -------------------------- *)
MarkdownHeight == 100  \* getHeight: placeholder height of a markdown row
MinLines == 4          \* minimum number of lines a code row is sized for
Chrome == 16           \* getHeight: fixed chrome added to a code row
EditorLinePx == 21     \* renderElement: pixels per line of the embedded editor

Resources == {"A", "B"}
Directions == {"above", "below"}
CellTypes == {"markdown", "code"}

VARIABLES
    \* NotebookEditor
    docs,        \* resource -> the cell array of its document (live)
    input,       \* BaseEditor's current input ("none" before the first open)
    model,       \* NotebookEditor.model ("none" while undefined)
    list,        \* the items of the WorkbenchList
    opens,       \* the setInput promise chains, in call order
    nextId,      \* number of cells created by insertEmptyNotebookCell
    lastOp,      \* history: the last editor operation and the state before it
    \* renderers
    mdTemplates,     \* markdown row templates created by renderTemplate
    codeTemplates,   \* code row templates created by renderTemplate
    attached,        \* live mousedown listeners on menu containers
    mdDisposables,   \* MarkdownCellRenderer.disposables (menuContainer -> listener)
    codeDisposables, \* CodeCellRenderer.disposables (cell -> listener)
    nextListener,    \* number of listeners created so far
    bound,           \* template -> cell of its most recent renderElement (0: none)
    editorLayout,    \* code template -> height its editor was laid out to
    discarded,       \* templates handed to disposeTemplate
    editorDisposed,  \* code templates whose embedded editor was disposed
    now,             \* the clock read by Date.now()
    uris,            \* the resources renderElement created text models for
    lastRender,      \* history: the cell of a disposeElement call that just ran
    \* row delegate
    lineHeight,      \* NotebookCellListDelegate._lineHeight
    element,         \* the cell handed to the delegate and the code renderer
    rowHeight,       \* result of getHeight(element), -1 before the call
    totalHeight,     \* height renderElement lays the editor out to, -1 before
    measured         \* history: source length and height of the previous code cell measured

editorVars == <<docs, input, model, list, opens, nextId, lastOp>>
renderVars == <<mdTemplates, codeTemplates, attached, mdDisposables, codeDisposables,
                nextListener, bound, editorLayout, discarded, editorDisposed, now,
                uris, lastRender>>
heightVars == <<lineHeight, element, rowHeight, totalHeight, measured>>
vars == <<editorVars, renderVars, heightVars>>

(* ------------------------------ helpers ------------------------------- *)
Max(a, b) == IF a > b THEN a ELSE b
Min(a, b) == IF a < b THEN a ELSE b

\* a source of n lines
Lines(n) == [i \in 1..n |-> "x=1"]

\* an ICell; cells are compared by reference in the code, the id stands for
\* the reference
Cell(id, type, n) == [id |-> id, cell_type |-> type, source |-> Lines(n)]

\* Array.prototype.indexOf: 0-based index of the first occurrence, -1 if none
indexOf(cells, cell) ==
    IF \E i \in 1..Len(cells) : cells[i] = cell
    THEN (CHOOSE i \in 1..Len(cells) :
             cells[i] = cell /\ \A j \in 1..(i-1) : cells[j] # cell) - 1
    ELSE -1

\* Array.prototype.splice(start, 0, item): a negative start counts from the
\* end, and the start is clamped into 0..length
ArraySplice(cells, start, item) ==
    LET k == IF start < 0 THEN Max(Len(cells) + start, 0) ELSE Min(start, Len(cells))
    IN  SubSeq(cells, 1, k) \o <<item>> \o SubSeq(cells, k + 1, Len(cells))

\* WorkbenchList.splice(start, 0, items): the possible item sequences after
\* the call. Within 0..length the items are inserted at start; outside it the
\* list either rejects the call or clamps like an array.
ListSplice(items, start, new) ==
    IF start >= 0 /\ start <= Len(items)
    THEN {SubSeq(items, 1, start) \o new \o SubSeq(items, start + 1, Len(items))}
    ELSE LET k == IF start < 0 THEN Max(Len(items) + start, 0) ELSE Len(items)
         IN  {items, SubSeq(items, 1, k) \o new \o SubSeq(items, k + 1, Len(items))}

\* stands for "no cell" in the history variables
NoCell == Cell(0, "code", 0)

NoMeasure == [n |-> -1, h |-> -1]

NoRender == [op |-> "none", cell |-> NoCell]

NoOp == [op |-> "none", cell |-> NoCell, direction |-> "none", index |-> -1,
         preCells |-> <<>>, preList |-> <<>>, preModel |-> "none", stale |-> FALSE]

(* ========================= NotebookEditor ============================= *)

\* ids of the cells a document holds when it is resolved, and of new cells
InitId(r, k) == (IF r = "A" THEN 0 ELSE MaxInitCells) + k
NewId(n) == 2 * MaxInitCells + n + 1

\* the documents a resource can resolve to: up to MaxInitCells cells of one
\* source line each, markdown and code cells alternating
InitType(k) == IF k % 2 = 1 THEN "markdown" ELSE "code"
InitDocs(r) ==
    {[k \in 1..n |-> Cell(InitId(r, k), InitType(k), 1)] : n \in 0..MaxInitCells}

Items(s) == {s[i] : i \in 1..Len(s)}

EditorInit ==
    /\ docs \in [Resources -> UNION {InitDocs(r) : r \in Resources}]
    /\ \A r \in Resources : docs[r] \in InitDocs(r)
    /\ input = "none"
    /\ model = "none"
    /\ list = <<>>
    /\ opens = <<>>
    /\ nextId = 0
    /\ lastOp = NoOp

\* setInput, up to the first .then: BaseEditor.setInput records the input and
\* returns a resolved promise
SetInput(r) ==
    /\ Len(opens) < MaxOpens
    /\ input' = r
    /\ opens' = Append(opens, [res |-> r, pc |-> "super"])
    /\ lastOp' = [NoOp EXCEPT !.op = "setInput"]
    /\ UNCHANGED <<docs, model, list, nextId>>

\* first .then of setInput: input.resolve() is called and is now pending
StartResolve(i) ==
    /\ opens[i].pc = "super"
    /\ opens' = [opens EXCEPT ![i].pc = "resolving"]
    /\ lastOp' = [NoOp EXCEPT !.op = "startResolve"]
    /\ UNCHANGED <<docs, input, model, list, nextId>>

\* second .then of setInput: the resolved model is stored and its cells are
\* spliced into the list at index 0, deleting nothing
ResolveDone(i) ==
    /\ opens[i].pc = "resolving"
    /\ opens' = [opens EXCEPT ![i].pc = "applied"]
    /\ model' = opens[i].res
    /\ list' \in ListSplice(list, 0, docs[opens[i].res])
    /\ lastOp' = [NoOp EXCEPT !.op = "resolve", !.preModel = model, !.preList = list,
                              !.preCells = docs[opens[i].res],
                              !.stale = (input # opens[i].res)]
    /\ UNCHANGED <<docs, input, nextId>>

\* insertEmptyNotebookCell with the two directions' insert indices exchanged
insertSwappedDirections(cell, direction) ==
    /\ model # "none"
    /\ nextId < MaxInserts
    /\ LET newCell == Cell(NewId(nextId), "code", 0)
           index == indexOf(docs[model], cell)
           insertIndex == IF direction = "above" THEN index + 1 ELSE index
       IN  /\ docs' = [docs EXCEPT ![model] = ArraySplice(@, insertIndex, newCell)]
           /\ list' \in ListSplice(list, insertIndex, <<newCell>>)
           /\ lastOp' = [NoOp EXCEPT !.op = "insert", !.cell = cell,
                                     !.direction = direction, !.index = index,
                                     !.preCells = docs[model], !.preList = list,
                                     !.preModel = model]
    /\ nextId' = nextId + 1
    /\ UNCHANGED <<input, model, opens>>

\* insertEmptyNotebookCell(cell, direction), called from the context menu of
\* a row of the list
insertEmptyNotebookCell(cell, direction) ==
    /\ model # "none"
    /\ nextId < MaxInserts
    /\ LET newCell == Cell(NewId(nextId), "code", 0)
           index == indexOf(docs[model], cell)
           insertIndex == IF direction = "above" THEN index ELSE index + 1
       IN  /\ docs' = [docs EXCEPT ![model] = ArraySplice(@, insertIndex, newCell)]
           /\ list' \in ListSplice(list, insertIndex, <<newCell>>)
           /\ lastOp' = [NoOp EXCEPT !.op = "insert", !.cell = cell,
                                     !.direction = direction, !.index = index,
                                     !.preCells = docs[model], !.preList = list,
                                     !.preModel = model]
    /\ nextId' = nextId + 1
    /\ UNCHANGED <<input, model, opens>>

RenderInit ==
    /\ mdTemplates = {} /\ codeTemplates = {} /\ attached = {}
    /\ mdDisposables = <<>> /\ codeDisposables = <<>>
    /\ nextListener = 0 /\ bound = <<>> /\ editorLayout = <<>>
    /\ discarded = {} /\ editorDisposed = {} /\ now = 0 /\ uris = <<>>
    /\ lastRender = NoRender

HeightIdle ==
    /\ lineHeight = 1 /\ element = Cell(0, "code", 0)
    /\ rowHeight = -1 /\ totalHeight = -1 /\ measured = NoMeasure

Init == EditorInit /\ RenderInit /\ HeightIdle

Next ==
    \/ \E r \in Resources : SetInput(r) /\ UNCHANGED <<renderVars, heightVars>>
    \/ \E i \in DOMAIN opens : StartResolve(i) /\ UNCHANGED <<renderVars, heightVars>>
    \/ \E i \in DOMAIN opens : ResolveDone(i) /\ UNCHANGED <<renderVars, heightVars>>
    \/ \E cell \in Items(list), direction \in Directions :
          insertEmptyNotebookCell(cell, direction) /\ UNCHANGED <<renderVars, heightVars>>

Spec == Init /\ [][Next]_vars

(* ============================ renderers =============================== *)

\* a Map as a function on its keys
MapSet(m, k, v) == [x \in DOMAIN m \cup {k} |-> IF x = k THEN v ELSE m[x]]
MapDelete(m, k) == [x \in DOMAIN m \ {k} |-> m[x]]

\* the cells the list hands to the renderers
MdCells == {Cell(1, "markdown", 1), Cell(2, "markdown", 2)}
CodeCells == {Cell(3, "code", 1), Cell(4, "code", 5)}

\* NotebookCellListDelegate.getTemplateId
getTemplateId(cell) ==
    IF cell.cell_type = "markdown" THEN "markdown_cell" ELSE "code_cell"

\* decimal digits of a natural number, as template literals print it
RECURSIVE Digits(_)
Digits(n) == IF n < 10 THEN <<n>> ELSE Digits(n \div 10) \o <<n % 10>>

\* the resource string `notebookcell-${index}-${Date.now()}.py`
CellResource(index, clock) ==
    <<"notebookcell-">> \o Digits(index) \o <<"-">> \o Digits(clock) \o <<".py">>

\* CodeCellRenderer.renderElement: the height the editor is laid out to
editorHeight(cell) == Max(Len(cell.source) + 1, MinLines) * EditorLinePx

\* the listeners attached to the menu container of a template
ListenersOn(kind, t) == {l \in attached : l.kind = kind /\ l.tmpl = t}

\* disposing a listener detaches it
Detach(ids) == {l \in attached : l.id \notin ids}

\* MarkdownCellRenderer.renderTemplate
MarkdownRenderTemplate ==
    /\ Cardinality(mdTemplates) < MaxTemplates
    /\ mdTemplates' = mdTemplates \cup {Cardinality(mdTemplates) + 1}
    /\ lastRender' = NoRender
    /\ UNCHANGED <<codeTemplates, attached, mdDisposables, codeDisposables, nextListener,
                   bound, editorLayout, discarded, editorDisposed, now, uris>>

\* CodeCellRenderer.renderTemplate: the template gets its own editor widget
CodeRenderTemplate ==
    /\ Cardinality(codeTemplates) < MaxTemplates
    /\ codeTemplates' = codeTemplates \cup {Cardinality(codeTemplates) + 1}
    /\ lastRender' = NoRender
    /\ UNCHANGED <<mdTemplates, attached, mdDisposables, codeDisposables, nextListener,
                   bound, editorLayout, discarded, editorDisposed, now, uris>>

\* MarkdownCellRenderer.renderElement: the listener recorded for the menu
\* container is disposed and forgotten, then a new one is attached and recorded
MarkdownRenderElement(cell, index, t) ==
    /\ getTemplateId(cell) = "markdown_cell"
    /\ t \in mdTemplates /\ <<"markdown", t>> \notin discarded
    /\ nextListener < MaxListeners
    /\ LET prior == IF t \in DOMAIN mdDisposables THEN {mdDisposables[t]} ELSE {}
           id == nextListener + 1
       IN  /\ attached' = Detach(prior) \cup
                  {[id |-> id, kind |-> "markdown", tmpl |-> t, cell |-> cell]}
           /\ mdDisposables' = MapSet(MapDelete(mdDisposables, t), t, id)
           /\ nextListener' = id
    /\ bound' = MapSet(bound, <<"markdown", t>>, cell)
    /\ lastRender' = NoRender
    /\ UNCHANGED <<mdTemplates, codeTemplates, codeDisposables, editorLayout, discarded,
                   editorDisposed, now, uris>>

\* CodeCellRenderer.renderElement: a text model is created under a resource
\* made of the row index and the clock, the editor is given the model and laid
\* out, and a new listener is attached and recorded under the cell. The model
\* service may refuse a resource it already holds a model for; the handler then
\* ends at createModel.
CodeRenderElement(cell, index, t) ==
    /\ getTemplateId(cell) = "code_cell"
    /\ t \in codeTemplates /\ <<"code", t>> \notin discarded
    /\ nextListener < MaxListeners /\ Len(uris) < MaxListeners
    /\ LET resource == CellResource(index, now)
           id == nextListener + 1
       IN  /\ uris' = Append(uris, resource)
           /\ \/ /\ editorLayout' = MapSet(editorLayout, t,
                        [model |-> resource, height |-> editorHeight(cell)])
                 /\ attached' = attached \cup
                        {[id |-> id, kind |-> "code", tmpl |-> t, cell |-> cell]}
                 /\ codeDisposables' = MapSet(codeDisposables, cell, id)
                 /\ nextListener' = id
                 /\ bound' = MapSet(bound, <<"code", t>>, cell)
                 /\ lastRender' = NoRender
              \/ /\ resource \in Items(uris)
                 /\ lastRender' = NoRender
                 /\ UNCHANGED <<editorLayout, attached, codeDisposables, nextListener, bound>>
    /\ UNCHANGED <<mdTemplates, codeTemplates, mdDisposables, discarded, editorDisposed, now>>

\* CodeCellRenderer.disposeElement: the listener recorded under the cell is
\* disposed and forgotten; index and template are not looked at
CodeDisposeElement(cell) ==
    /\ getTemplateId(cell) = "code_cell"
    /\ IF cell \in DOMAIN codeDisposables
       THEN /\ attached' = Detach({codeDisposables[cell]})
            /\ codeDisposables' = MapDelete(codeDisposables, cell)
       ELSE UNCHANGED <<attached, codeDisposables>>
    /\ lastRender' = [op |-> "disposeElement", cell |-> cell]
    /\ UNCHANGED <<mdTemplates, codeTemplates, mdDisposables, nextListener, bound,
                   editorLayout, discarded, editorDisposed, now, uris>>

\* MarkdownCellRenderer.disposeTemplate and CodeCellRenderer.disposeTemplate:
\* both bodies are empty; the list does not use the template again
DisposeTemplate(kind, t) ==
    /\ t \in (IF kind = "markdown" THEN mdTemplates ELSE codeTemplates)
    /\ <<kind, t>> \notin discarded
    /\ discarded' = discarded \cup {<<kind, t>>}
    /\ lastRender' = NoRender
    /\ UNCHANGED <<mdTemplates, codeTemplates, attached, mdDisposables, codeDisposables,
                   nextListener, bound, editorLayout, editorDisposed, now, uris>>

\* the clock advances
Tick ==
    /\ now < MaxClock
    /\ now' = now + 1
    /\ lastRender' = NoRender
    /\ UNCHANGED <<mdTemplates, codeTemplates, attached, mdDisposables, codeDisposables,
                   nextListener, bound, editorLayout, discarded, editorDisposed, uris>>

EditorIdle ==
    /\ docs = [r \in Resources |-> <<>>]
    /\ input = "none" /\ model = "none" /\ list = <<>> /\ opens = <<>>
    /\ nextId = 0 /\ lastOp = NoOp

RenderNext ==
    \/ MarkdownRenderTemplate /\ UNCHANGED <<editorVars, heightVars>>
    \/ CodeRenderTemplate /\ UNCHANGED <<editorVars, heightVars>>
    \/ \E cell \in MdCells, index \in 0..MaxIndex, t \in 1..MaxTemplates :
          MarkdownRenderElement(cell, index, t) /\ UNCHANGED <<editorVars, heightVars>>
    \/ \E cell \in CodeCells, index \in 0..MaxIndex, t \in 1..MaxTemplates :
          CodeRenderElement(cell, index, t) /\ UNCHANGED <<editorVars, heightVars>>
    \/ \E cell \in CodeCells : CodeDisposeElement(cell) /\ UNCHANGED <<editorVars, heightVars>>
    \/ \E kind \in CellTypes, t \in 1..MaxTemplates :
          DisposeTemplate(kind, t) /\ UNCHANGED <<editorVars, heightVars>>
    \/ Tick /\ UNCHANGED <<editorVars, heightVars>>

RenderSpecInit == EditorIdle /\ RenderInit /\ HeightIdle

RenderSpec == RenderSpecInit /\ [][RenderNext]_vars


(* =========================== row delegate ============================= *)

\* the cells the list asks the delegate about
HeightCells == {Cell(0, t, n) : t \in CellTypes, n \in 0..MaxLines}

\* getHeight without the extra line
getHeightNoExtraLine(cell, L) ==
    IF cell.cell_type = "markdown"
    THEN MarkdownHeight
    ELSE Max(Len(cell.source), MinLines) * L + Chrome

\* NotebookCellListDelegate.getHeight
getHeight(cell, L) ==
    IF cell.cell_type = "markdown"
    THEN MarkdownHeight
    ELSE Max(Len(cell.source) + 1, MinLines) * L + Chrome

\* NotebookCellListDelegate.hasDynamicHeight
hasDynamicHeight(cell) == cell.cell_type = "markdown"

\* the delegate is constructed with the configured line height
HeightInit ==
    /\ lineHeight \in 1..MaxLineHeight
    /\ element = Cell(0, "code", 0)
    /\ rowHeight = -1 /\ totalHeight = -1 /\ measured = NoMeasure

\* the list asks the delegate for the height of a cell
GetHeight(cell) ==
    /\ element' = cell
    /\ rowHeight' = getHeight(cell, lineHeight)
    /\ totalHeight' = -1
    /\ measured' = IF rowHeight # -1 /\ element.cell_type = "code"
                   THEN [n |-> Len(element.source), h |-> rowHeight]
                   ELSE measured
    /\ UNCHANGED lineHeight

\* the code renderer lays the editor of the measured cell out
LayoutEditor ==
    /\ rowHeight # -1 /\ totalHeight = -1
    /\ getTemplateId(element) = "code_cell"
    /\ totalHeight' = editorHeight(element)
    /\ UNCHANGED <<lineHeight, element, rowHeight, measured>>

HeightNext ==
    \/ \E cell \in HeightCells : GetHeight(cell) /\ UNCHANGED <<editorVars, renderVars>>
    \/ LayoutEditor /\ UNCHANGED <<editorVars, renderVars>>

HeightSpecInit == EditorIdle /\ RenderInit /\ HeightInit

HeightSpec == HeightSpecInit /\ [][HeightNext]_vars

(* ----------------------- claims on the editor ------------------------- *)

\* s without its element at position k
Without(s, k) == SubSeq(s, 1, k - 1) \o SubSeq(s, k + 1, Len(s))

IsEmptyCodeCell(c) == c.cell_type = "code" /\ c.source = <<>>

\* C1: inserting at an anchor cell found at (1-based) position i of the
\* current document puts a new empty code cell at i and the anchor at i+1
\* for 'above', and the new cell at i+1 for 'below'; the document grows by
\* exactly one cell and the cells it had keep their order.
C1_InsertPlacesNewCell ==
    lastOp.op = "insert" =>
        LET pre == lastOp.preCells
            post == docs[lastOp.preModel]
        IN  \A i \in 1..Len(pre) :
                pre[i] = lastOp.cell =>
                    LET k == IF lastOp.direction = "above" THEN i ELSE i + 1
                    IN  /\ Len(post) = Len(pre) + 1
                        /\ IsEmptyCodeCell(post[k])
                        /\ post[k] \notin Items(pre)
                        /\ lastOp.direction = "above" => post[i + 1] = lastOp.cell
                        /\ lastOp.direction = "below" => post[i] = lastOp.cell
                        /\ Without(post, k) = pre

\* C1 witness: an insert above an anchor that is not the first cell, in a
\* document of at least two cells
C1_Witness ==
    /\ lastOp.op = "insert"
    /\ lastOp.direction = "above"
    /\ lastOp.index >= 1
    /\ Len(docs[model]) >= 3

\* C2: the list's items are, in order, the cells of the open document
C2_ListEqualsDocument ==
    model # "none" => list = docs[model]

\* C3: an insert whose anchor is not a cell of the current document leaves
\* the document and the list as they were
C3_MissingAnchorIsNoOp ==
    (lastOp.op = "insert" /\ lastOp.cell \notin Items(lastOp.preCells)) =>
        /\ docs[lastOp.preModel] = lastOp.preCells
        /\ list = lastOp.preList

\* C5: a resolve that completes for a resource the editor has since been
\* pointed away from changes neither the editor's model nor the list
C5_StaleOpenDiscarded ==
    (lastOp.op = "resolve" /\ lastOp.stale) =>
        /\ model = lastOp.preModel
        /\ list = lastOp.preList

(* ---------------------- claims on the renderers ----------------------- *)

\* C4: a populated template carries at most one click listener on its menu
\* affordance, and that listener is for the cell of the most recent populate
C4_OneListenerPerTemplate ==
    \A k \in DOMAIN bound :
        /\ Cardinality(ListenersOn(k[1], k[2])) <= 1
        /\ \A l \in ListenersOn(k[1], k[2]) : l.cell = bound[k]

\* C7: a template handed to disposeTemplate has no live listener, no listener
\* of it is still recorded in a disposables map, and its editor is disposed
C7_DiscardedTemplateReleased ==
    \A k \in discarded :
        /\ ListenersOn(k[1], k[2]) = {}
        /\ k[1] = "markdown" => k[2] \notin DOMAIN mdDisposables
        /\ k[1] = "code" =>
              /\ k[2] \in editorDisposed
              /\ \A c \in DOMAIN codeDisposables :
                    codeDisposables[c] \notin {l.id : l \in ListenersOn("code", k[2])}

\* C8: right after disposeElement(cell) no listener the code renderer
\* attached for that cell is attached to any template
C8_DisposeElementDetachesCell ==
    lastRender.op = "disposeElement" =>
        \A l \in attached : ~(l.kind = "code" /\ l.cell = lastRender.cell)

\* C9: the resources the code renderer creates text models under are
\* pairwise different
C9_ResourcesUnique ==
    \A i, j \in 1..Len(uris) : i # j => uris[i] # uris[j]

(* --------------------- claims on the row delegate --------------------- *)

\* C6: the height of a code cell of n lines is max(n+1, 4) * L + 16, which is
\* 4 * L + 16 for one line, and a cell of no fewer lines than the one measured
\* before it is no lower
C6_CodeRowHeight ==
    (rowHeight # -1 /\ element.cell_type = "code") =>
        LET n == Len(element.source)
        IN  /\ rowHeight = (IF n + 1 >= 4 THEN n + 1 ELSE 4) * lineHeight + 16
            /\ n = 1 => rowHeight = 4 * lineHeight + 16
            /\ (measured.n # -1 /\ measured.n <= n) => measured.h <= rowHeight
            /\ (measured.n # -1 /\ measured.n >= n) => measured.h >= rowHeight

\* C6 witness: a code cell of more than four lines measured after a shorter one
C6_Witness ==
    /\ rowHeight # -1
    /\ element.cell_type = "code"
    /\ Len(element.source) >= 5
    /\ measured.n # -1
    /\ measured.n < Len(element.source)

\* C10: the height the editor of a code cell is laid out to is at most the
\* height the delegate reports for the cell
C10_EditorFitsRow ==
    totalHeight # -1 => totalHeight <= rowHeight

====
